---- MODULE Spec2Model ----
(***************************************************************************)
(* A model of lswpalette (src/lswpalette.py, src/colourutils.py): the HSV   *)
(* palette designer's row model, derived colour matrix, favourites palette  *)
(* and INI export/import.                                                   *)
(*                                                                          *)
(* Strings are sequences of one-character strings, so that upper(), len(),  *)
(* startswith(), split(), join(), str() and int() are modelled by what they *)
(* do.  Floating point degree/channel arithmetic is modelled by exact       *)
(* rational arithmetic on integers.                                         *)
(***************************************************************************)
EXTENDS Integers, Sequences, FiniteSets, Bags, TLC

\* ------------------------------------------------------------------ bounds
\* Number of user actions explored from the freshly constructed window.
MaxSteps == 2
\* Number of handlers explored by the row-growth specification SpecRows.
MaxRowSteps == 47
\* Number of handlers explored by the favourites specification SpecFav.
MaxFavSteps == 4
\* Number of handlers explored by the row reordering specification SpecDrag.
MaxDragSteps == 3
\* Longest text, not counting leading "#", handed to hex_to_rgb_tuple.
MaxHexLen == 7
\* Largest number of adjustable rows in the matrix specification SpecMatrix.
MaxMatrixRows == 2
\* Finest hue grid of SpecHsv: hues are multiples of 1/MaxHueDen degree.
MaxHueDen == 7

\* ------------------------------------------------------- program constants
MIN_COLS == 2
MAX_COLS == 360
\* hue range of the base-hue scale and of import validation
MAX_HUE == 359
\* saturation / value percentage range of an HSVVar
MAX_PCT == 100
\* import refuses rows_count above this
MAX_IMPORT_ROWS == 50
\* length of a "#RRGGBB" token
HEX_LEN == 7

\* --------------------------------------------------------------- characters
\* A missing value (dict.get() of an absent key): never equal to any string
\* of single characters.
None == <<"None">>

Min2(a, b) == IF a < b THEN a ELSE b
Max2(a, b) == IF a > b THEN a ELSE b

DecDigits == <<"0", "1", "2", "3", "4", "5", "6", "7", "8", "9">>
LowerHexDigits == <<"0", "1", "2", "3", "4", "5", "6", "7", "8", "9",
                    "a", "b", "c", "d", "e", "f">>

\* str.upper() on one character (the letters that occur in the model)
upper_char(c) ==
    CASE c = "a" -> "A" [] c = "b" -> "B" [] c = "c" -> "C"
      [] c = "d" -> "D" [] c = "e" -> "E" [] c = "f" -> "F"
      [] c = "g" -> "G" [] c = "x" -> "X"
      [] c = "i" -> "I" [] c = "n" -> "N" [] c = "t" -> "T" [] c = "y" -> "Y"
      [] OTHER -> c

\* str.upper()
upper(s) == [i \in 1..Len(s) |-> upper_char(s[i])]

\* str(n) for an integer n
RECURSIVE nat_to_str(_)
nat_to_str(n) ==
    IF n < 10 THEN <<DecDigits[n + 1]>>
    ELSE nat_to_str(n \div 10) \o <<DecDigits[(n % 10) + 1]>>

int_to_str(n) == IF n < 0 THEN <<"-">> \o nat_to_str(0 - n) ELSE nat_to_str(n)

IsDecDigit(c) == \E d \in 1..10 : DecDigits[d] = c
DigitValue(c) == (CHOOSE d \in 1..10 : DecDigits[d] = c) - 1

RECURSIVE digits_value(_)
digits_value(s) ==
    IF s = <<>> THEN 0
    ELSE 10 * digits_value(SubSeq(s, 1, Len(s) - 1)) + DigitValue(s[Len(s)])

\* int(x): [ok |-> FALSE] when x is None (key missing, TypeError) or is not a
\* decimal integer literal (ValueError); both are caught by "except Exception".
str_to_int(s) ==
    IF s = None \/ s = <<>> THEN [ok |-> FALSE, val |-> 0]
    ELSE LET signed == s[1] \in {"-", "+"}
             body == IF signed THEN Tail(s) ELSE s
         IN IF body = <<>> \/ \E i \in 1..Len(body) : ~IsDecDigit(body[i])
            THEN [ok |-> FALSE, val |-> 0]
            ELSE [ok |-> TRUE,
                  val |-> IF s[1] = "-" THEN 0 - digits_value(body)
                          ELSE digits_value(body)]

\* str.strip() of blanks
strip(s) ==
    LET inked == {i \in 1..Len(s) : s[i] # " "}
    IN IF inked = {} THEN <<>>
       ELSE SubSeq(s, CHOOSE i \in inked : \A j \in inked : i <= j,
                      CHOOSE i \in inked : \A j \in inked : i >= j)

\* int(float(text)) for a text with no exponent part and no underscores:
\* kind "ok" with the value truncated towards zero, "ValueError" (not a
\* number, or nan), or "OverflowError" (an infinity)
float_to_int(text) ==
    LET s == strip(text)
        signed == s # <<>> /\ s[1] \in {"-", "+"}
        body == IF signed THEN Tail(s) ELSE s
        dots == {i \in 1..Len(body) : body[i] = "."}
        whole == IF dots = {} THEN body
                 ELSE SubSeq(body, 1, (CHOOSE i \in dots : TRUE) - 1)
        is_number == /\ Cardinality(dots) <= 1
                     /\ Len(body) > Cardinality(dots)
                     /\ \A i \in 1..Len(body) : body[i] = "." \/ IsDecDigit(body[i])
    IN IF upper(body) \in {<<"I", "N", "F">>,
                           <<"I", "N", "F", "I", "N", "I", "T", "Y">>}
       THEN [kind |-> "OverflowError", val |-> 0]
       ELSE IF is_number
       THEN [kind |-> "ok",
             val |-> IF s[1] = "-" THEN 0 - digits_value(whole) ELSE digits_value(whole)]
       ELSE [kind |-> "ValueError", val |-> 0]

\* " ".join(tokens)
RECURSIVE join(_)
join(toks) ==
    IF toks = <<>> THEN <<>>
    ELSE IF Len(toks) = 1 THEN toks[1]
    ELSE toks[1] \o <<" ">> \o join(Tail(toks))

\* str.split(): the maximal runs of non-blank characters
RECURSIVE split_from(_, _, _)
split_from(s, i, cur) ==
    IF i > Len(s) THEN (IF cur = <<>> THEN <<>> ELSE <<cur>>)
    ELSE IF s[i] = " "
         THEN (IF cur = <<>> THEN <<>> ELSE <<cur>>) \o split_from(s, i + 1, <<>>)
         ELSE split_from(s, i + 1, Append(cur, s[i]))

split(s) == split_from(s, 1, <<>>)

\* ------------------------------------------------------------ colourutils
\* round(255 * V * A / (100 * B)) with Python's round-half-to-even, where
\* B = 6000 * cols and 0 <= A <= B; staged so that no intermediate value
\* exceeds 32 bits.
channel(V, A, B) ==
    LET K == 255 * V
        Mk == B \div 10
        A1 == A \div 1000
        A0 == A % 1000
        N1 == K * A1 + ((K * A0) \div 1000)
        R0 == (K * A0) % 1000
        quot == N1 \div Mk
        rem == (N1 % Mk) * 1000 + R0
    IN IF 2 * rem > 1000 * Mk THEN quot + 1
       ELSE IF 2 * rem = 1000 * Mk /\ quot % 2 = 1 THEN quot + 1
       ELSE quot

\* f"{n:02x}"
hex2(n) == <<LowerHexDigits[(n \div 16) + 1], LowerHexDigits[(n % 16) + 1]>>

\* mutant of hsv_to_hex: saturation and value handed over in the wrong order
hsv_to_hex_sv_swapped(hnum, hden, s_pct, v_pct) ==
    LET hn == hnum % (360 * hden)
        D6 == 60 * hden
        S == Max2(0, Min2(100, v_pct))
        V == Max2(0, Min2(100, s_pct))
        i == (hn \div D6) % 6
        fn == hn % D6
        B == 100 * D6
        vv == B
        p == (100 - S) * D6
        q == 100 * D6 - S * fn
        t == 100 * D6 - S * (D6 - fn)
        rgb == IF S = 0 THEN <<vv, vv, vv>>
               ELSE CASE i = 0 -> <<vv, t, p>>
                      [] i = 1 -> <<q, vv, p>>
                      [] i = 2 -> <<p, vv, t>>
                      [] i = 3 -> <<p, q, vv>>
                      [] i = 4 -> <<t, p, vv>>
                      [] OTHER -> <<vv, p, q>>
    IN <<"#">> \o hex2(channel(V, rgb[1], B)) \o hex2(channel(V, rgb[2], B))
              \o hex2(channel(V, rgb[3], B))

\* hsv_to_hex(h_deg, s_pct, v_pct) with h_deg = hnum / hden degrees.
\* colorsys.hsv_to_rgb: sector i = int(h*6), f = h*6 - i,
\* p = v(1-s), q = v(1-s f), t = v(1-s(1-f)).
hsv_to_hex(hnum, hden, s_pct, v_pct) ==
    LET hn == hnum % (360 * hden)
        D6 == 60 * hden
        S == Max2(0, Min2(100, s_pct))
        V == Max2(0, Min2(100, v_pct))
        i == (hn \div D6) % 6
        fn == hn % D6
        B == 100 * D6
        vv == B
        p == (100 - S) * D6
        q == 100 * D6 - S * fn
        t == 100 * D6 - S * (D6 - fn)
        rgb == IF S = 0 THEN <<vv, vv, vv>>
               ELSE CASE i = 0 -> <<vv, t, p>>
                      [] i = 1 -> <<q, vv, p>>
                      [] i = 2 -> <<p, vv, t>>
                      [] i = 3 -> <<p, q, vv>>
                      [] i = 4 -> <<t, p, vv>>
                      [] OTHER -> <<vv, p, q>>
    IN <<"#">> \o hex2(channel(V, rgb[1], B)) \o hex2(channel(V, rgb[2], B))
              \o hex2(channel(V, rgb[3], B))

\* str.lstrip("#")
RECURSIVE lstrip_hash(_)
lstrip_hash(s) == IF s # <<>> /\ s[1] = "#" THEN lstrip_hash(Tail(s)) ELSE s

HexDigitChars == <<"0", "1", "2", "3", "4", "5", "6", "7", "8", "9",
                   "a", "b", "c", "d", "e", "f", "A", "B", "C", "D", "E", "F">>
IsHexDigit(c) == \E d \in 1..22 : HexDigitChars[d] = c
HexDigitValue(c) ==
    LET d == CHOOSE k \in 1..22 : HexDigitChars[k] = c
    IN IF d <= 16 THEN d - 1 ELSE d - 7

RECURSIVE hex_digits_value(_)
hex_digits_value(s) ==
    IF s = <<>> THEN 0
    ELSE 16 * hex_digits_value(SubSeq(s, 1, Len(s) - 1)) + HexDigitValue(s[Len(s)])

\* int(s, 16) for a text without blanks, underscores or "0x": an optional
\* sign and at least one hex digit, else ValueError (ok = FALSE)
int16(s) ==
    LET signed == s # <<>> /\ s[1] \in {"-", "+"}
        body == IF signed THEN Tail(s) ELSE s
    IN IF body = <<>> \/ \E i \in 1..Len(body) : ~IsHexDigit(body[i])
       THEN [ok |-> FALSE, val |-> 0]
       ELSE [ok |-> TRUE,
             val |-> IF s[1] = "-" THEN 0 - hex_digits_value(body)
                     ELSE hex_digits_value(body)]

\* the slice s[i:j] (0-based, end-exclusive, clipped to the text)
slice(s, i, j) == SubSeq(s, i + 1, Min2(j, Len(s)))

\* hex_to_rgb_tuple: ok = FALSE when int() raises ValueError
hex_to_rgb_tuple(hex_color) ==
    LET h == lstrip_hash(hex_color)
        parts == <<int16(slice(h, 0, 2)), int16(slice(h, 2, 4)), int16(slice(h, 4, 6))>>
    IN IF \E k \in 1..3 : ~parts[k].ok THEN [ok |-> FALSE, val |-> <<>>]
       ELSE [ok |-> TRUE, val |-> <<parts[1].val, parts[2].val, parts[3].val>>]

\* ------------------------------------------------------------------ state
VARIABLES
    cols,              \* self.cols
    h_var,             \* self.h_var (base hue, degrees)
    rows,              \* self.rows: the S/V of each adjustable row, in order
    cell_hex,          \* self.cell_hex[r][c], as cell_hex[r + 1][c + 1]
    palette_hexes,     \* self.palette_hexes (favourites, ordered)
    palette_hex_set,   \* self.palette_hex_set
    drag_start_index,  \* self._drag_info["start_index"]; -1 models None
    drag_row,          \* where the row whose handle was pressed (the row_frame of
                       \* the last _drag_start) now sits in self.rows; -1 when no
                       \* handle was pressed or that row has left the list
    op,                \* the last completed handler and its input
    steps,             \* number of handlers run so far
    fault,             \* the exception that escaped the last handler, or "none"
    call,              \* a call of a colourutils function: name, arguments, result
    grid_runs          \* the executions of _update_grid in the last handler, in
                       \* order: the loop bounds of each and the size of the
                       \* cell_hex it indexed

vars == <<cols, h_var, rows, cell_hex, palette_hexes, palette_hex_set,
          drag_start_index, drag_row, op, steps, fault, call, grid_runs>>

\* ------------------------------------------------------- matrix derivation
\* _build_grid: cell_hex = [[None] * cols for each of the 1 + len(rows) rows]
build_grid(c, rws) == [r \in 1..(1 + Len(rws)) |-> [k \in 1..c |-> None]]

\* mutant of hue_num: the hue step computed by integer division
hue_num_int_step(c, h, k) == ((h + (360 \div c) * k) % 360) * c

\* hue_steps[k] = (base_h + (360.0 / cols) * k) % 360, as a fraction over cols
hue_num(c, h, k) == (h * c + 360 * k) % (360 * c)

\* _update_grid run against the grid `grid`: the cells it assigns, in the
\* code's order, until an index falls outside `grid` (IndexError).
update_grid(c, h, rws, grid) ==
    LET width == Len(grid[1])
        top_ok == c <= width
        total == 1 + Len(rws)
        last == IF top_ok THEN Min2(total, Len(grid)) ELSE 1
        cell(r, k) ==
            IF r = 1 THEN hsv_to_hex(hue_num(c, h, k - 1), c, 100, 100)
            ELSE hsv_to_hex(hue_num(c, h, k - 1), c, rws[r - 1].s, rws[r - 1].v)
    IN [cells |-> [r \in 1..Len(grid) |->
                     [k \in 1..Len(grid[r]) |->
                        IF r <= last /\ k <= c THEN cell(r, k) ELSE grid[r][k]]],
        ok |-> top_ok /\ total <= Len(grid)]

\* one execution of _update_grid with self.cols = c and self.rows = rws
\* against self.cell_hex = grid: it indexes cell_hex[r][k] for r < total and
\* k < cols, and grid has `height` rows of `width` cells
run_of(c, rws, grid) ==
    [cols |-> c, total |-> 1 + Len(rws), width |-> Len(grid[1]), height |-> Len(grid)]

\* _build_grid() followed by _update_grid()
rebuilt_grid(c, h, rws) == update_grid(c, h, rws, build_grid(c, rws)).cells

clamp(lo, hi, v) == Max2(lo, Min2(hi, v))

\* ------------------------------------------------------------ user inputs
\* Text committed in the column-count spinbox ("x": not a number).
ColsTexts == {int_to_str(1), int_to_str(3), <<"x">>}
\* Text committed in the hue entry, and positions of the hue scale.
HueTexts == {int_to_str(400), <<"x">>}
HueScalePositions == {120}
\* Text committed in a row's S or V entry, and positions of its scale.
SVTexts == {int_to_str(150), int_to_str(-5), <<"x">>, <<"i", "n", "f">>}
SVScalePositions == {50}
\* Rows whose S/V controls the user edits: the first and the last one.
EditRows == {0, Len(rows) - 1} \cap (0..(Len(rows) - 1))
\* Cells (r, c) of the matrix the user right-clicks.
CtxCells == {<<0, 0>>, <<0, 1>>, <<1, 0>>}

\* the handler `name` has completed on input `arg`
Done(name, arg) ==
    /\ op' = [name |-> name, arg |-> arg]
    /\ steps' = steps + 1
    /\ fault' = "none"
    /\ call' = call

\* the handler `name` was left by the uncaught exception exc, which Tk's
\* callback wrapper reports on stderr
Raised(name, arg, exc) ==
    /\ op' = [name |-> name, arg |-> arg]
    /\ steps' = steps + 1
    /\ fault' = exc
    /\ call' = call

\* no colourutils call under observation
NoCall == [fn |-> "none", arg |-> <<>>, done |-> FALSE, result |-> <<>>]

\* ---------------------------------------------------------------- PaletteApp
\* __init__: 7 columns, hue 25, five rows 85/85, 70/70, ... 25/25.
Init ==
    /\ cols = 7
    /\ h_var = 25
    /\ rows = [i \in 1..5 |-> [s |-> 85 - (i - 1) * 15, v |-> 85 - (i - 1) * 15]]
    /\ cell_hex = rebuilt_grid(7, 25, rows)
    /\ palette_hexes = <<>>
    /\ palette_hex_set = {}
    /\ drag_start_index = -1
    /\ drag_row = -1
    /\ op = [name |-> "init", arg |-> <<>>]
    /\ steps = 0
    /\ fault = "none"
    /\ call = NoCall
    /\ grid_runs = <<run_of(7, rows, build_grid(7, rows))>>

\* _on_add_row_click: "+" appends a row at int((last_s + last_v) / 2)
new_row_default(rws) ==
    IF rws = <<>> THEN 70
    ELSE clamp(0, MAX_PCT, (rws[Len(rws)].s + rws[Len(rws)].v) \div 2)

on_add_row_click ==
    LET d == new_row_default(rows)
    IN /\ rows' = Append(rows, [s |-> d, v |-> d])
       /\ cell_hex' = rebuilt_grid(cols, h_var, rows')
       /\ UNCHANGED <<cols, h_var, palette_hexes, palette_hex_set, drag_start_index, drag_row>>
       /\ grid_runs' = <<run_of(cols, rows', build_grid(cols, rows'))>>
       /\ Done("add_row", <<>>)

\* list.pop(idx) for 0 <= idx < len
pop(seq, idx) == SubSeq(seq, 1, idx) \o SubSeq(seq, idx + 2, Len(seq))

\* list.insert(idx, x) for 0 <= idx (an index past the end appends)
insert(seq, idx, x) ==
    LET at == Min2(idx, Len(seq))
    IN SubSeq(seq, 1, at) \o <<x>> \o SubSeq(seq, at + 1, Len(seq))

\* the index, after rows.pop(idx), of the row that was at pos (-1: none)
index_after_pop(pos, idx) ==
    IF pos = idx THEN -1 ELSE IF pos > idx THEN pos - 1 ELSE pos

\* mutant of remove_row: the last row is popped, whatever row was asked for
remove_row_pops_last(idx) ==
    /\ idx \in 0..(Len(rows) - 1)
    /\ rows' = SubSeq(rows, 1, Len(rows) - 1)
    /\ cell_hex' = rebuilt_grid(cols, h_var, rows')
    /\ UNCHANGED <<cols, h_var, palette_hexes, palette_hex_set, drag_start_index>>
    /\ drag_row' = index_after_pop(drag_row, idx)
    /\ grid_runs' = <<run_of(cols, rows', build_grid(cols, rows'))>>
    /\ Done("remove_row", <<idx>>)

\* _remove_row_by_frame for a frame that is not in self.rows: idx stays None
\* and the handler returns
remove_row_by_frame_gone ==
    /\ UNCHANGED <<cols, h_var, rows, cell_hex, palette_hexes, palette_hex_set,
                   drag_start_index, drag_row>>
    /\ grid_runs' = <<>>
    /\ Done("remove_row_gone", <<>>)

\* _remove_row_by_frame / _remove_row: the "-" button of the row at idx
remove_row(idx) ==
    /\ idx \in 0..(Len(rows) - 1)
    /\ rows' = pop(rows, idx)
    /\ cell_hex' = rebuilt_grid(cols, h_var, rows')
    /\ UNCHANGED <<cols, h_var, palette_hexes, palette_hex_set, drag_start_index>>
    /\ drag_row' = index_after_pop(drag_row, idx)
    /\ grid_runs' = <<run_of(cols, rows', build_grid(cols, rows'))>>
    /\ Done("remove_row", <<idx>>)

\* _drag_start: press on the handle of the row at idx
drag_start(idx) ==
    /\ idx \in 0..(Len(rows) - 1)
    /\ drag_start_index' = idx
    /\ drag_row' = idx
    /\ UNCHANGED <<cols, h_var, rows, cell_hex, palette_hexes, palette_hex_set>>
    /\ grid_runs' = <<>>
    /\ Done("drag_start", <<idx>>)

\* mutant of moved_rows: the dragged row is inserted without being popped
moved_rows_no_pop(rws, start, insert_index) ==
    IF insert_index = start \/ insert_index = start + 1 THEN rws
    ELSE insert(rws, insert_index, rws[start + 1])

\* the reordering of _drag_end, for a start index inside the list
moved_rows(rws, start, insert_index) ==
    IF insert_index = start \/ insert_index = start + 1 THEN rws
    ELSE insert(pop(rws, start),
                IF insert_index > start THEN insert_index - 1 ELSE insert_index,
                rws[start + 1])

\* mutant of drag_end: the matrix is not recomputed after the reorder
drag_end_no_repaint(insert_index) ==
    /\ insert_index \in 0..Len(rows)
    /\ drag_start_index # -1
    /\ drag_start_index' = -1
    /\ drag_row' = -1
    /\ rows' = IF drag_start_index < Len(rows)
               THEN moved_rows(rows, drag_start_index, insert_index)
               ELSE rows
    /\ UNCHANGED <<cols, h_var, cell_hex, palette_hexes, palette_hex_set>>
    /\ grid_runs' = <<>>
    /\ Done("drag_end", <<drag_start_index, insert_index>>)

\* _drag_end: release with the pointer at insert position insert_index.
\* rows.pop(start) raises IndexError when start is no longer an index; the
\* handler is then left with the rows untouched and the drag state cleared.
drag_end(insert_index) ==
    /\ insert_index \in 0..Len(rows)
    /\ drag_start_index # -1
    /\ drag_start_index' = -1
    /\ drag_row' = -1
    /\ rows' = IF drag_start_index < Len(rows)
               THEN moved_rows(rows, drag_start_index, insert_index)
               ELSE rows
    /\ cell_hex' = IF insert_index = drag_start_index
                      \/ insert_index = drag_start_index + 1
                      \/ drag_start_index >= Len(rows)
                   THEN cell_hex
                   ELSE rebuilt_grid(cols, h_var, rows')
    /\ UNCHANGED <<cols, h_var, palette_hexes, palette_hex_set>>
    /\ grid_runs' = IF insert_index = drag_start_index
                       \/ insert_index = drag_start_index + 1
                       \/ drag_start_index >= Len(rows)
                    THEN <<>>
                    ELSE <<run_of(cols, rows', build_grid(cols, rows'))>>
    /\ IF drag_start_index >= Len(rows) /\ insert_index # drag_start_index
          /\ insert_index # drag_start_index + 1
       THEN Raised("drag_end", <<drag_start_index, insert_index>>, "IndexError")
       ELSE Done("drag_end", <<drag_start_index, insert_index>>)

\* mutant of on_cols_change: the favourites are dropped with the old grid
on_cols_change_drops_palette(text) ==
    LET parsed == str_to_int(text)
        value == clamp(MIN_COLS, MAX_COLS, IF parsed.ok THEN parsed.val ELSE cols)
    IN /\ cols' = value
       /\ cell_hex' = IF value # cols THEN rebuilt_grid(value, h_var, rows)
                      ELSE update_grid(cols, h_var, rows, cell_hex).cells
       /\ palette_hexes' = IF value # cols THEN <<>> ELSE palette_hexes
       /\ UNCHANGED <<h_var, rows, palette_hex_set, drag_start_index, drag_row>>
       /\ grid_runs' = IF value # cols
                       THEN <<run_of(value, rows, build_grid(value, rows))>>
                       ELSE <<run_of(cols, rows, cell_hex)>>
       /\ Done("cols_change", text)

\* mutant of on_cols_change: _build_grid forgotten when the count changes
on_cols_change_no_rebuild(text) ==
    LET parsed == str_to_int(text)
        value == clamp(MIN_COLS, MAX_COLS, IF parsed.ok THEN parsed.val ELSE cols)
    IN /\ cols' = value
       /\ cell_hex' = update_grid(Min2(value, cols), h_var, rows, cell_hex).cells
       /\ UNCHANGED <<h_var, rows, palette_hexes, palette_hex_set, drag_start_index, drag_row>>
       /\ grid_runs' = <<run_of(value, rows, cell_hex)>>
       /\ Done("cols_change", text)

\* _on_cols_change / _on_cols_entry: commit the spinbox text
on_cols_change(text) ==
    LET parsed == str_to_int(text)
        value == clamp(MIN_COLS, MAX_COLS, IF parsed.ok THEN parsed.val ELSE cols)
    IN /\ cols' = value
       /\ cell_hex' = IF value # cols THEN rebuilt_grid(value, h_var, rows)
                      ELSE update_grid(cols, h_var, rows, cell_hex).cells
       /\ UNCHANGED <<h_var, rows, palette_hexes, palette_hex_set, drag_start_index, drag_row>>
       /\ grid_runs' = IF value # cols
                       THEN <<run_of(value, rows, build_grid(value, rows))>>
                       ELSE <<run_of(cols, rows, cell_hex)>>
       /\ Done("cols_change", text)

\* _on_h_scale: the hue scale moved to `value`
on_h_scale(value) ==
    /\ h_var' = clamp(0, MAX_HUE, value)
    /\ cell_hex' = update_grid(cols, h_var', rows, cell_hex).cells
    /\ UNCHANGED <<cols, rows, palette_hexes, palette_hex_set, drag_start_index, drag_row>>
    /\ grid_runs' = <<run_of(cols, rows, cell_hex)>>
    /\ Done("h_scale", <<value>>)

\* _clamp_h: commit the hue entry text (not a number: 0)
clamp_h(text) ==
    LET parsed == str_to_int(text)
    IN /\ h_var' = clamp(0, MAX_HUE, IF parsed.ok THEN parsed.val ELSE 0)
       /\ cell_hex' = update_grid(cols, h_var', rows, cell_hex).cells
       /\ UNCHANGED <<cols, rows, palette_hexes, palette_hex_set, drag_start_index, drag_row>>
       /\ grid_runs' = <<run_of(cols, rows, cell_hex), run_of(cols, rows, cell_hex)>>
       /\ Done("clamp_h", text)

\* HSVVar._on_entry: the value left in the control by committing `text`
\* (int(float(text)); on ValueError the current value), clamped
hsvvar_on_entry(cur, text) ==
    LET parsed == float_to_int(text)
    IN clamp(0, MAX_PCT, IF parsed.kind = "ok" THEN parsed.val ELSE cur)

\* HSVVar._on_entry on the S ("s") or V ("v") control of row idx, then its
\* command, _update_grid.  Only ValueError is caught: an OverflowError
\* leaves the handler before anything is assigned.
sv_on_entry(idx, field, text) ==
    /\ idx \in 0..(Len(rows) - 1)
    /\ IF float_to_int(text).kind = "OverflowError"
       THEN /\ UNCHANGED <<rows, cell_hex>>
            /\ grid_runs' = <<>>
            /\ Raised("sv_entry", <<idx, field, text>>, "OverflowError")
       ELSE /\ rows' = [rows EXCEPT ![idx + 1] =
                          IF field = "s"
                          THEN [@ EXCEPT !.s = hsvvar_on_entry(@, text)]
                          ELSE [@ EXCEPT !.v = hsvvar_on_entry(@, text)]]
            /\ cell_hex' = update_grid(cols, h_var, rows', cell_hex).cells
            /\ grid_runs' = <<run_of(cols, rows', cell_hex), run_of(cols, rows', cell_hex)>>
            /\ Done("sv_entry", <<idx, field, text>>)
    /\ UNCHANGED <<cols, h_var, palette_hexes, palette_hex_set, drag_start_index, drag_row>>

\* HSVVar._on_scale on the S or V control of row idx, then _update_grid
sv_on_scale(idx, field, value) ==
    /\ idx \in 0..(Len(rows) - 1)
    /\ rows' = [rows EXCEPT ![idx + 1] =
                  IF field = "s" THEN [@ EXCEPT !.s = value]
                  ELSE [@ EXCEPT !.v = value]]
    /\ cell_hex' = update_grid(cols, h_var, rows', cell_hex).cells
    /\ UNCHANGED <<cols, h_var, palette_hexes, palette_hex_set, drag_start_index, drag_row>>
    /\ grid_runs' = <<run_of(cols, rows', cell_hex)>>
    /\ Done("sv_scale", <<idx, field, value>>)

\* ------------------------------------------------------------- favourites
\* mutant of palette_add_color: membership decided by the set alone
palette_add_color_set_only(hexes, hex_set, hex_color) ==
    IF hex_color = <<>> \/ hex_color = None \/ upper(hex_color) \in hex_set
    THEN [hexes |-> hexes, hex_set |-> hex_set]
    ELSE [hexes |-> Append(hexes, upper(hex_color)),
          hex_set |-> hex_set \cup {upper(hex_color)}]

\* _palette_add_color: the list and the membership set after add(hex_color)
palette_add_color(hexes, hex_set, hex_color) ==
    IF hex_color = <<>> \/ hex_color = None
    THEN [hexes |-> hexes, hex_set |-> hex_set]
    ELSE IF \E i \in 1..Len(hexes) : upper(hexes[i]) = upper(hex_color)
    THEN [hexes |-> hexes, hex_set |-> hex_set]
    ELSE IF upper(hex_color) \in hex_set
    THEN [hexes |-> hexes, hex_set |-> hex_set]
    ELSE [hexes |-> Append(hexes, upper(hex_color)),
          hex_set |-> hex_set \cup {upper(hex_color)}]

\* _show_ctx_menu on cell (r, c), then "Add to Palette" (_ctx_add_to_palette)
ctx_add_to_palette(r, c) ==
    /\ r \in 0..Len(rows)
    /\ c \in 0..(cols - 1)
    /\ LET added == palette_add_color(palette_hexes, palette_hex_set,
                                      cell_hex[r + 1][c + 1])
       IN /\ palette_hexes' = added.hexes
          /\ palette_hex_set' = added.hex_set
    /\ UNCHANGED <<cols, h_var, rows, cell_hex, drag_start_index, drag_row>>
    /\ grid_runs' = <<>>
    /\ Done("palette_add", <<cell_hex[r + 1][c + 1], palette_hexes>>)

\* mutant of palette_remove: the list is cut at the first match
palette_remove_cuts_tail(hexes, hex_set, ctx_hex) ==
    IF ctx_hex = <<>> \/ ctx_hex = None
    THEN [hexes |-> hexes, hex_set |-> hex_set]
    ELSE LET hex_target == upper(ctx_hex)
             hits == {i \in 1..Len(hexes) : upper(hexes[i]) = hex_target}
         IN [hexes |-> IF hits = {} THEN hexes
                       ELSE SubSeq(hexes, 1, (CHOOSE i \in hits : \A j \in hits : i <= j) - 1),
             hex_set |-> hex_set \ {hex_target}]

\* _palette_remove_ctx with _palette_ctx_hex = ctx_hex: the list and the
\* membership set it leaves
palette_remove(hexes, hex_set, ctx_hex) ==
    IF ctx_hex = <<>> \/ ctx_hex = None
    THEN [hexes |-> hexes, hex_set |-> hex_set]
    ELSE LET hex_target == upper(ctx_hex)
         IN [hexes |-> SelectSeq(hexes, LAMBDA x : upper(x) # hex_target),
             hex_set |-> hex_set \ {hex_target}]

\* _show_palette_menu on the square of palette_hexes[i], then
\* "Remove from Palette" (_palette_remove_ctx)
palette_remove_ctx(i) ==
    /\ i \in 1..Len(palette_hexes)
    /\ LET removed == palette_remove(palette_hexes, palette_hex_set, palette_hexes[i])
       IN /\ palette_hex_set' = removed.hex_set
          /\ palette_hexes' = removed.hexes
    /\ UNCHANGED <<cols, h_var, rows, cell_hex, drag_start_index, drag_row>>
    /\ grid_runs' = <<>>
    /\ Done("palette_remove", <<palette_hexes[i], palette_hexes>>)

\* _apply_imported_palette: upper-case, drop repeats, keep first-seen order
RECURSIVE ordered_unique(_, _)
ordered_unique(items, acc) ==
    IF items = <<>> THEN acc
    ELSE LET x == upper(Head(items))
         IN ordered_unique(Tail(items),
                           IF \E i \in 1..Len(acc) : acc[i] = x THEN acc
                           ELSE Append(acc, x))

\* mutant of apply_imported_palette: repeats are kept
apply_imported_palette_no_dedup(items) == [i \in 1..Len(items) |-> upper(items[i])]

apply_imported_palette(items) == ordered_unique(items, <<>>)

\* ------------------------------------------------------------ INI documents
\* A parsed INI file: its section names, and per section a map from key to
\* value.  Keys of [inputs] are <<"cols">>, <<"h">>, <<"rows_count">>,
\* <<"row", i, "_s">>, <<"row", i, "_v">>; keys of [hex] are <<"row", r>>;
\* the key of [palette] is <<"colors">>.
get(section, key) == IF key \in DOMAIN section THEN section[key] ELSE None

\* mutant of export_ini: the adjustable rows are numbered from 1
export_ini_rows_from_1 ==
    LET n == Len(rows)
        fixed == {<<"cols">>, <<"h">>, <<"rows_count">>}
        keys == fixed \cup {<<"row", i, f>> : i \in 1..n, f \in {"_s", "_v"}}
    IN [sections |-> {"meta", "inputs", "hex", "palette"},
        inputs |-> [k \in keys |->
                      IF k = <<"cols">> THEN int_to_str(cols)
                      ELSE IF k = <<"h">> THEN int_to_str(h_var)
                      ELSE IF k = <<"rows_count">> THEN int_to_str(n)
                      ELSE IF k[3] = "_s" THEN int_to_str(rows[k[2]].s)
                      ELSE int_to_str(rows[k[2]].v)],
        hex |-> [k \in {<<"row", r>> : r \in 1..(n + 1)} |->
                   join([c \in 1..cols |-> upper(cell_hex[k[2]][c])])],
        palette |-> [k \in {<<"colors">>} |->
                       join([i \in 1..Len(palette_hexes) |-> upper(palette_hexes[i])])]]

\* _export_ini: the document written for the current state
export_ini ==
    LET n == Len(rows)
        fixed == {<<"cols">>, <<"h">>, <<"rows_count">>}
        keys == fixed \cup {<<"row", i, f>> : i \in 2..(n + 1), f \in {"_s", "_v"}}
    IN [sections |-> {"meta", "inputs", "hex", "palette"},
        inputs |-> [k \in keys |->
                      IF k = <<"cols">> THEN int_to_str(cols)
                      ELSE IF k = <<"h">> THEN int_to_str(h_var)
                      ELSE IF k = <<"rows_count">> THEN int_to_str(n)
                      ELSE IF k[3] = "_s" THEN int_to_str(rows[k[2] - 1].s)
                      ELSE int_to_str(rows[k[2] - 1].v)],
        hex |-> [k \in {<<"row", r>> : r \in 1..(n + 1)} |->
                   join([c \in 1..cols |-> upper(cell_hex[k[2]][c])])],
        palette |-> [k \in {<<"colors">>} |->
                       join([i \in 1..Len(palette_hexes) |-> upper(palette_hexes[i])])]]

\* mutant of hex_shaped: the length test forgotten
hex_shaped_prefix_only(x) == x # <<>> /\ x[1] = "#"

\* the shape test of import: 7 characters, the first one "#"
hex_shaped(x) == Len(x) = HEX_LEN /\ x[1] = "#"

\* [x.strip().upper() for x in value.split() if x.strip()]
tokens(value) == LET t == split(value) IN [i \in 1..Len(t) |-> upper(t[i])]

\* mutant of imported_grid: the matrix is read from the [hex] section
imported_grid_from_hex(d, c, h, rws) ==
    [r \in 1..(1 + Len(rws)) |-> tokens(d.hex[<<"row", r>>])]

\* the matrix _import_ini leaves: _build_grid() and _update_grid() on the
\* imported columns, hue and rows; the [hex] section of d is not read again
imported_grid(d, c, h, rws) == rebuilt_grid(c, h, rws)

\* _import_ini on the parsed document d: the outcome and the state it leaves
import_result(d) ==
    LET same(outcome) ==
            [outcome |-> outcome, cols |-> cols, h_var |-> h_var, rows |-> rows,
             cell_hex |-> cell_hex, palette_hexes |-> palette_hexes,
             grid_runs |-> <<>>, drag_row |-> drag_row]
        c == str_to_int(get(d.inputs, <<"cols">>))
        h == str_to_int(get(d.inputs, <<"h">>))
        rc == str_to_int(get(d.inputs, <<"rows_count">>))
        s_of(i) == str_to_int(get(d.inputs, <<"row", i, "_s">>))
        v_of(i) == str_to_int(get(d.inputs, <<"row", i, "_v">>))
        sv_idx == 2..(rc.val + 1)
        sv_vals == [j \in 1..rc.val |-> [s |-> s_of(j + 1).val, v |-> v_of(j + 1).val]]
        hex_ok(r) ==
            /\ <<"row", r>> \in DOMAIN d.hex
            /\ LET arr == tokens(d.hex[<<"row", r>>])
               IN /\ Len(arr) = c.val
                  /\ \A i \in 1..Len(arr) : hex_shaped(arr[i])
        grid == imported_grid(d, c.val, h.val, sv_vals)
        applied(outcome, hexes) ==
            [outcome |-> outcome, cols |-> c.val, h_var |-> h.val, rows |-> sv_vals,
             cell_hex |-> grid, palette_hexes |-> hexes,
             grid_runs |-> <<run_of(c.val, <<>>, cell_hex),
                             run_of(c.val, sv_vals, build_grid(c.val, sv_vals))>>,
             drag_row |-> -1]
        raw == get(d.palette, <<"colors">>)
        items == IF raw = None THEN <<>> ELSE tokens(raw)
    IN IF ~({"inputs", "hex"} \subseteq d.sections) THEN same("missing_section")
       ELSE IF ~(c.ok /\ h.ok /\ rc.ok) THEN same("not_integers")
       ELSE IF ~(MIN_COLS <= c.val /\ c.val <= MAX_COLS /\ 0 <= h.val
                 /\ h.val <= MAX_HUE /\ 0 <= rc.val /\ rc.val <= MAX_IMPORT_ROWS)
            THEN same("out_of_range")
       ELSE IF \E i \in sv_idx : ~(s_of(i).ok /\ v_of(i).ok) \/
                 ~(0 <= s_of(i).val /\ s_of(i).val <= MAX_PCT
                   /\ 0 <= v_of(i).val /\ v_of(i).val <= MAX_PCT)
            THEN same("bad_sv")
       ELSE IF \E r \in 1..(rc.val + 1) : ~hex_ok(r) THEN same("bad_hex")
       ELSE IF "palette" \notin d.sections THEN applied("ok_no_palette", palette_hexes)
       ELSE IF items = <<>> THEN applied("ok", <<>>)
       ELSE IF \E i \in 1..Len(items) : ~hex_shaped(items[i])
            THEN applied("bad_palette", palette_hexes)
       ELSE applied("ok", apply_imported_palette(items))

\* _import_ini: "Import configuration..." on the document d
import_ini(d) ==
    \E res \in {import_result(d)} :
       /\ cols' = res.cols
       /\ h_var' = res.h_var
       /\ rows' = res.rows
       /\ cell_hex' = res.cell_hex
       /\ palette_hexes' = res.palette_hexes
       /\ UNCHANGED <<palette_hex_set, drag_start_index>>
       /\ drag_row' = res.drag_row
       /\ grid_runs' = res.grid_runs
       /\ Done("import", <<res.outcome>>)

\* --------------------------------------------------------- imported files
\* tokens used in the imported documents
TokRedUpper == <<"#", "F", "F", "0", "0", "0", "0">>
TokRedLower == <<"#", "f", "f", "0", "0", "0", "0">>
TokGreen == <<"#", "0", "0", "f", "f", "0", "0">>
\* "#"-prefixed, 7 characters, not hex digits
TokShapeOnly == <<"#", "G", "G", "g", "g", "G", "G">>
TokShort == <<"#", "F", "F", "F">>
TokNoHash == <<"F", "F", "0", "0", "0", "0", "0">>
TokLong == <<"#", "F", "F", "0", "0", "0", "0", "0">>

\* a document with the given sections; c, h, rc: the values of cols, h and
\* rows_count; svs[j]: the values of row{j+1}_s and row{j+1}_v; hexrows[r]:
\* the value of [hex] row{r}; pal: the value of [palette] colors.  A value
\* None leaves its key out.
mk_doc(secs, c, h, rc, svs, hexrows, pal) ==
    LET head == {k \in {<<"cols">>, <<"h">>, <<"rows_count">>} :
                    (IF k = <<"cols">> THEN c
                     ELSE IF k = <<"h">> THEN h ELSE rc) # None}
        sv_keys == {k \in {<<"row", j + 1, f>> : j \in 1..Len(svs), f \in {"_s", "_v"}} :
                      svs[k[2] - 1][IF k[3] = "_s" THEN 1 ELSE 2] # None}
    IN [sections |-> secs,
        inputs |-> [k \in head \cup sv_keys |->
                      IF k = <<"cols">> THEN c
                      ELSE IF k = <<"h">> THEN h
                      ELSE IF k = <<"rows_count">> THEN rc
                      ELSE svs[k[2] - 1][IF k[3] = "_s" THEN 1 ELSE 2]],
        hex |-> [k \in {<<"row", r>> : r \in {x \in 1..Len(hexrows) : hexrows[x] # None}}
                   |-> hexrows[k[2]]],
        palette |-> [k \in (IF pal = None THEN {} ELSE {<<"colors">>}) |-> pal]]

AllSections == {"meta", "inputs", "hex", "palette"}
TwoShaped == join(<<TokShapeOnly, TokRedLower>>)
ThreeShaped == join(<<TokShapeOnly, TokRedLower, TokGreen>>)
Sv50 == <<int_to_str(50), int_to_str(50)>>

\* well-formed: 2 columns, hue 0, no rows, no [palette] section
DocNoPalette ==
    mk_doc({"meta", "inputs", "hex"}, int_to_str(2), int_to_str(0), int_to_str(0),
           <<>>, <<TwoShaped>>, None)
\* well-formed: 2 columns, hue 25, one row 50/50, empty colors
DocEmptyPalette ==
    mk_doc(AllSections, int_to_str(2), int_to_str(25), int_to_str(1),
           <<Sv50>>, <<TwoShaped, TwoShaped>>, <<>>)
\* well-formed: colors repeat a colour in both cases
DocPalette ==
    mk_doc(AllSections, int_to_str(2), int_to_str(120), int_to_str(1),
           <<Sv50>>, <<TwoShaped, TwoShaped>>,
           join(<<TokRedLower, TokRedUpper, TokGreen>>))
\* [inputs] and [hex] well-formed, colors holds a 4-character token
DocBadPalette ==
    mk_doc(AllSections, int_to_str(2), int_to_str(120), int_to_str(1),
           <<Sv50>>, <<TwoShaped, TwoShaped>>, join(<<TokRedUpper, TokShort>>))

\* well-formed: 3 columns, hue 200, rows 30/60 and 90/10; colors repeat the
\* first colour, in the other case, after a second one
DocTwoRows ==
    mk_doc(AllSections, int_to_str(3), int_to_str(200), int_to_str(2),
           <<<<int_to_str(30), int_to_str(60)>>, <<int_to_str(90), int_to_str(10)>>>>,
           <<ThreeShaped, ThreeShaped, ThreeShaped>>,
           join(<<TokGreen, TokRedLower, upper(TokGreen)>>))

GoodDocs == {DocNoPalette, DocEmptyPalette, DocPalette, DocTwoRows}

\* DocPalette with one defect in [inputs] or [hex]
DocWith(secs, c, h, rc, svs, hexrows) ==
    mk_doc(secs, c, h, rc, svs, hexrows, join(<<TokRedUpper, TokGreen>>))

BadDocs ==
    LET c2 == int_to_str(2)
        h0 == int_to_str(120)
        r1 == int_to_str(1)
        hx == <<TwoShaped, TwoShaped>>
    IN { DocWith({"meta", "hex", "palette"}, c2, h0, r1, <<Sv50>>, hx),
         DocWith({"meta", "inputs", "palette"}, c2, h0, r1, <<Sv50>>, hx),
         DocWith(AllSections, <<"x">>, h0, r1, <<Sv50>>, hx),
         DocWith(AllSections, c2, None, r1, <<Sv50>>, hx),
         DocWith(AllSections, int_to_str(1), h0, r1, <<Sv50>>, hx),
         DocWith(AllSections, int_to_str(361), h0, r1, <<Sv50>>, hx),
         DocWith(AllSections, c2, int_to_str(360), r1, <<Sv50>>, hx),
         DocWith(AllSections, c2, int_to_str(-1), r1, <<Sv50>>, hx),
         DocWith(AllSections, c2, h0, int_to_str(51), <<Sv50>>, hx),
         DocWith(AllSections, c2, h0, int_to_str(-1), <<Sv50>>, hx),
         DocWith(AllSections, c2, h0, r1, <<<<None, int_to_str(50)>>>>, hx),
         DocWith(AllSections, c2, h0, r1, <<<<int_to_str(50), int_to_str(101)>>>>, hx),
         DocWith(AllSections, c2, h0, r1, <<Sv50>>, <<TwoShaped, None>>),
         DocWith(AllSections, c2, h0, r1, <<Sv50>>,
                 <<TwoShaped, join(<<TokRedUpper, TokRedUpper, TokRedUpper>>)>>),
         DocWith(AllSections, c2, h0, r1, <<Sv50>>,
                 <<join(<<TokRedUpper, TokNoHash>>), TwoShaped>>),
         DocWith(AllSections, c2, h0, r1, <<Sv50>>,
                 <<TwoShaped, join(<<TokLong, TokRedUpper>>)>>) }

ImportDocs == GoodDocs \cup {DocBadPalette} \cup BadDocs

\* ------------------------------------------------------------ specification
Budget == steps < MaxSteps

Next ==
    \/ Budget /\ on_add_row_click
    \/ Budget /\ \E idx \in 0..(Len(rows) - 1) : remove_row(idx)
    \/ Budget /\ \E idx \in 0..(Len(rows) - 1) : drag_start(idx)
    \/ Budget /\ \E k \in 0..Len(rows) : drag_end(k)
    \/ Budget /\ \E t \in ColsTexts : on_cols_change(t)
    \/ Budget /\ \E x \in HueScalePositions : on_h_scale(x)
    \/ Budget /\ \E t \in HueTexts : clamp_h(t)
    \/ Budget /\ \E idx \in EditRows, f \in {"s", "v"}, t \in SVTexts :
                    sv_on_entry(idx, f, t)
    \/ Budget /\ \E idx \in EditRows, f \in {"s", "v"}, x \in SVScalePositions :
                    sv_on_scale(idx, f, x)
    \/ Budget /\ \E cell \in CtxCells : ctx_add_to_palette(cell[1], cell[2])
    \/ Budget /\ \E i \in 1..Len(palette_hexes) : palette_remove_ctx(i)
    \/ Budget /\ \E d \in ImportDocs : import_ini(d)
    \/ Budget /\ \E d \in {export_ini} : import_ini(d)

Spec == Init /\ [][Next]_vars

\* Row growth: "+" clicks, and re-import of the exported document.
NextRows ==
    \/ steps < MaxRowSteps /\ on_add_row_click
    \/ steps < MaxRowSteps /\ \E d \in {export_ini} : import_ini(d)

SpecRows == Init /\ [][NextRows]_vars

\* Favourites: add, remove and import, at several base hues.
NextFav ==
    \/ steps < MaxFavSteps /\ \E cell \in CtxCells : ctx_add_to_palette(cell[1], cell[2])
    \/ steps < MaxFavSteps /\ \E i \in 1..Len(palette_hexes) : palette_remove_ctx(i)
    \/ steps < MaxFavSteps /\ \E d \in GoodDocs \cup {DocBadPalette} : import_ini(d)
    \/ steps < MaxFavSteps /\ \E x \in HueScalePositions : on_h_scale(x)

SpecFav == Init /\ [][NextFav]_vars

\* Row reordering: drags interleaved with "+" and "-" clicks.
NextDrag ==
    \/ steps < MaxDragSteps /\ \E idx \in 0..(Len(rows) - 1) : drag_start(idx)
    \/ steps < MaxDragSteps /\ \E k \in 0..Len(rows) : drag_end(k)
    \/ steps < MaxDragSteps /\ \E idx \in 0..(Len(rows) - 1) : remove_row(idx)
    \/ steps < MaxDragSteps /\ on_add_row_click
    \/ steps < MaxDragSteps /\ remove_row_by_frame_gone

SpecDrag == Init /\ [][NextDrag]_vars

\* hex_to_rgb_tuple on its own: the texts handed to it, and the call.
HexAlphabet == {"a", "F", "G", "-"}
HexTexts ==
    {prefix \o body : prefix \in {<<>>, <<"#">>, <<"#", "#">>},
                      body \in UNION {[1..n -> HexAlphabet] : n \in 0..MaxHexLen}}

AppIdle ==
    UNCHANGED <<cols, h_var, rows, cell_hex, palette_hexes, palette_hex_set,
                drag_start_index, drag_row, op, steps, fault, grid_runs>>

\* the window while a colourutils function is looked at on its own
IdleApp ==
    /\ cols = 7
    /\ h_var = 25
    /\ rows = <<>>
    /\ cell_hex = rebuilt_grid(7, 25, <<>>)
    /\ palette_hexes = <<>>
    /\ palette_hex_set = {}
    /\ drag_start_index = -1
    /\ drag_row = -1
    /\ op = [name |-> "init", arg |-> <<>>]
    /\ steps = 0
    /\ fault = "none"
    /\ grid_runs = <<run_of(7, <<>>, build_grid(7, <<>>))>>

InitHexToRgb ==
    /\ IdleApp
    /\ \E x \in HexTexts :
          call = [fn |-> "hex_to_rgb_tuple", arg |-> x, done |-> FALSE, result |-> <<>>]

call_hex_to_rgb_tuple ==
    /\ call.fn = "hex_to_rgb_tuple"
    /\ ~call.done
    /\ call' = [call EXCEPT !.done = TRUE, !.result = hex_to_rgb_tuple(call.arg)]
    /\ AppIdle

SpecHexToRgb == InitHexToRgb /\ [][call_hex_to_rgb_tuple]_vars

\* hsv_to_hex on its own: every hue of the grid at saturation 0 and every
\* value, and at saturation 100.
HsvSats == {0, 100}

InitHsv ==
    /\ IdleApp
    /\ \E hden \in {1, MaxHueDen}, sat \in HsvSats, v \in 0..100 :
          \E hnum \in 0..(360 * hden - 1) :
              /\ (hden = 1 \/ sat = 0)
              /\ call = [fn |-> "hsv_to_hex", arg |-> <<hnum, hden, sat, v>>,
                         done |-> FALSE, result |-> <<>>]

call_hsv_to_hex ==
    /\ call.fn = "hsv_to_hex"
    /\ ~call.done
    /\ call' = [call EXCEPT !.done = TRUE,
                            !.result = hsv_to_hex(call.arg[1], call.arg[2],
                                                  call.arg[3], call.arg[4])]
    /\ AppIdle

SpecHsv == InitHsv /\ [][call_hsv_to_hex]_vars

\* _build_grid and _update_grid on their own, as a function of the columns,
\* the base hue and the rows.
MatrixCols == {2, 3, 4, 7}
MatrixHues == {0, 25, 200, 359}
MatrixPcts == {0, 50, 100}
MatrixRowSeqs ==
    UNION {[1..n -> [s : MatrixPcts, v : MatrixPcts]] : n \in 0..MaxMatrixRows}

InitMatrix ==
    /\ IdleApp
    /\ \E c \in MatrixCols, h \in MatrixHues, rws \in MatrixRowSeqs :
          call = [fn |-> "update_grid", arg |-> <<c, h, rws>>, done |-> FALSE,
                  result |-> <<>>]

call_update_grid ==
    /\ call.fn = "update_grid"
    /\ ~call.done
    /\ call' = [call EXCEPT !.done = TRUE,
                            !.result = rebuilt_grid(call.arg[1], call.arg[2], call.arg[3])]
    /\ AppIdle

SpecMatrix == InitMatrix /\ [][call_update_grid]_vars

\* ------------------------------------------------------------------ claims
\* The import validation steps as the specification words them (section 4.5).
ParsesIn(x, lo, hi) == str_to_int(x).ok /\ lo <= str_to_int(x).val /\ str_to_int(x).val <= hi

StepSections(d) == "inputs" \in d.sections /\ "hex" \in d.sections

StepHeader(d) ==
    /\ ParsesIn(get(d.inputs, <<"cols">>), 2, 360)
    /\ ParsesIn(get(d.inputs, <<"h">>), 0, 359)
    /\ ParsesIn(get(d.inputs, <<"rows_count">>), 0, 50)

DocRowsCount(d) == str_to_int(get(d.inputs, <<"rows_count">>)).val
DocCols(d) == str_to_int(get(d.inputs, <<"cols">>)).val

StepRows(d) ==
    \A i \in 2..(DocRowsCount(d) + 1) :
        /\ ParsesIn(get(d.inputs, <<"row", i, "_s">>), 0, 100)
        /\ ParsesIn(get(d.inputs, <<"row", i, "_v">>), 0, 100)

WellShaped(tok) == Len(tok) = 7 /\ Head(tok) = "#"

StepHex(d) ==
    \A r \in 1..(DocRowsCount(d) + 1) :
        /\ <<"row", r>> \in DOMAIN d.hex
        /\ Len(split(d.hex[<<"row", r>>])) = DocCols(d)
        /\ \A i \in 1..DocCols(d) : WellShaped(split(d.hex[<<"row", r>>])[i])

PassesSteps1To4(d) == StepSections(d) /\ StepHeader(d) /\ StepRows(d) /\ StepHex(d)

PaletteTokens(d) ==
    IF "palette" \in d.sections /\ <<"colors">> \in DOMAIN d.palette
    THEN split(d.palette[<<"colors">>]) ELSE <<>>

PaletteMalformed(d) == \E i \in 1..Len(PaletteTokens(d)) : ~WellShaped(PaletteTokens(d)[i])

NoOrEmptyPalette(d) == PaletteTokens(d) = <<>>

Rejected(o) == o.name = "import" /\ o.arg[1] \notin {"ok", "ok_no_palette"}
Succeeded(o) == o.name = "import" /\ o.arg[1] \in {"ok", "ok_no_palette"}

CoreUnchanged == UNCHANGED <<cols, h_var, rows, cell_hex, palette_hexes>>

\* C1: an import whose [inputs] and [hex] pass validation but whose [palette]
\* colors hold a token that is not 7 characters starting with "#" is rejected
\* and leaves columns, hue, rows, matrix and favourites as they were.
C1_ImportAllOrNothing ==
    [][\A d \in ImportDocs :
          (op'.name = "import" /\ PassesSteps1To4(d) /\ PaletteMalformed(d) /\ import_ini(d))
              => (Rejected(op') /\ CoreUnchanged)]_vars

\* C2: in every reachable state, importing the exported document succeeds and
\* gives back the same columns, hue, row sequence and favourites.
C2_RoundTrip ==
    \A res \in {import_result(export_ini)} :
        /\ res.outcome = "ok"
        /\ res.cols = cols
        /\ res.h_var = h_var
        /\ res.rows = rows
        /\ res.palette_hexes = palette_hexes

\* C3: an import whose document fails one of the validation steps 1-4 is
\* rejected and leaves columns, hue, rows, matrix and favourites unchanged.
C3_RejectedImportKeepsState ==
    [][op'.name = "import" =>
          \/ Rejected(op') /\ CoreUnchanged
          \/ \A d \in ImportDocs : ~(~PassesSteps1To4(d) /\ import_ini(d))]_vars

\* C3 witness: an import was rejected for its [hex] section while favourites
\* were held.
C3_Witness ==
    /\ op = [name |-> "import", arg |-> <<"bad_hex">>]
    /\ palette_hexes # <<>>

\* C4: after a successful import of a document with no [palette] section, or
\* an empty one, the favourites are empty.
C4_ImportWithoutPaletteClears ==
    [][\A d \in ImportDocs :
          (op'.name = "import" /\ NoOrEmptyPalette(d) /\ import_ini(d) /\ Succeeded(op'))
              => palette_hexes' = <<>>]_vars

\* C5: in every reachable state, add(hex) of a cell colour whose upper-case
\* form is not in the favourites appends that form at the end, and add(hex) of
\* a colour already in the list leaves the list unchanged.
C5_AddAppendsOrKeeps ==
    \A r \in 0..Len(rows), c \in 0..(cols - 1) :
        \A hx \in {cell_hex[r + 1][c + 1]} :
            \A after \in {palette_add_color(palette_hexes, palette_hex_set, hx).hexes} :
                IF \E i \in 1..Len(palette_hexes) : upper(palette_hexes[i]) = upper(hx)
                THEN after = palette_hexes
                ELSE after = Append(palette_hexes, upper(hx))

\* C6: the favourites never hold two entries that are equal when upper-cased.
C6_NoCaseDuplicates ==
    \A i, j \in 1..Len(palette_hexes) :
        i # j => upper(palette_hexes[i]) # upper(palette_hexes[j])

\* C6 witness: a colour was added in lower case while its upper-case form was
\* the only favourite, and exactly that one entry is left.
C6_Witness ==
    /\ op.name = "palette_add"
    /\ op.arg[1] # upper(op.arg[1])
    /\ op.arg[2] = <<upper(op.arg[1])>>
    /\ palette_hexes = op.arg[2]

\* C7: changing the column count or the hue, editing a row's S/V, adding,
\* deleting and reordering rows leave the favourites unchanged; only add,
\* remove and import change them.
C7_FavouritesFrame ==
    [][/\ op'.name \in {"cols_change", "h_scale", "clamp_h", "sv_entry", "sv_scale",
                        "add_row", "remove_row", "drag_start", "drag_end"}
            => palette_hexes' = palette_hexes
       /\ palette_hexes' # palette_hexes
            => op'.name \in {"palette_add", "palette_remove", "import"}]_vars

\* C7 witness: the column count was changed while favourites were held.
C7_Witness ==
    /\ op.name = "cols_change"
    /\ cols # 7
    /\ palette_hexes # <<>>

\* C8: after every completed handler the stored matrix has 1 + len(rows) rows
\* of cols cells each.
C8_MatrixDimensions ==
    /\ Len(cell_hex) = 1 + Len(rows)
    /\ \A r \in 1..Len(cell_hex) : Len(cell_hex[r]) = cols

\* C8 witness: a column-count change and a row deletion have both completed.
C8_Witness ==
    /\ op.name \in {"cols_change", "remove_row"}
    /\ cols = 3
    /\ Len(rows) = 4
    /\ Len(cell_hex) = 5
    /\ Len(cell_hex[5]) = 3

\* the colour the specification derives for cell (r, c): hue (h + c*360/cols)
\* mod 360, at 100/100 in row 0 and at rows[r-1]'s S/V below it
DerivedCell(r, c) ==
    hsv_to_hex((h_var * cols + c * 360) % (360 * cols), cols,
               IF r = 0 THEN 100 ELSE rows[r].s,
               IF r = 0 THEN 100 ELSE rows[r].v)

\* C9: after every completed handler every cell of the stored matrix equals
\* the colour derived from the current columns, hue and rows.
C9_MatrixIsDerived ==
    /\ Len(cell_hex) = 1 + Len(rows)
    /\ \A r \in 0..Len(rows) :
          /\ Len(cell_hex[r + 1]) = cols
          /\ \A c \in 0..(cols - 1) : cell_hex[r + 1][c + 1] = DerivedCell(r, c)

\* C9 witness: a drag has moved the first row behind the second one.
C9_Witness ==
    /\ op = [name |-> "drag_end", arg |-> <<0, 2>>]
    /\ rows[1].s = 70
    /\ rows[2].s = 85
    /\ cell_hex[2][1] = DerivedCell(1, 0)

\* the sequence without its element at 0-based index i
Without(seq, i) == [k \in 1..(Len(seq) - 1) |-> IF k <= i THEN seq[k] ELSE seq[k + 1]]

SeqBag(seq) == [x \in {seq[i] : i \in 1..Len(seq)} |->
                  Cardinality({i \in 1..Len(seq) : seq[i] = x})]

\* C10: a drag from row index start to an insert index in [0, len(rows)]
\* keeps the multiset of (s, v) pairs and the relative order of the rows that
\* were not dragged, and leaves the sequence as it is when the insert index is
\* start or start + 1.
C10_DragIsPermutation ==
    [][\A k \in 0..Len(rows) :
          drag_end(k) =>
             /\ SeqBag(rows') = SeqBag(rows)
             /\ drag_start_index < Len(rows) =>
                   \E j \in 0..(Len(rows') - 1) :
                       /\ rows'[j + 1] = rows[drag_start_index + 1]
                       /\ Without(rows', j) = Without(rows, drag_start_index)
             /\ (k = drag_start_index \/ k = drag_start_index + 1) => rows' = rows]_vars

\* C10 witness: the first row was dragged to the end.
C10_Witness ==
    /\ op = [name |-> "drag_end", arg |-> <<0, Len(rows)>>]
    /\ Len(rows) >= 2
    /\ rows[Len(rows)].s = 85
    /\ rows[1].s = 70

\* the average sum / 2 of two integers rounded to the nearest integer, a tie
\* going up, and a tie going to the even neighbour
RoundHalfUp(sum) == (sum + 1) \div 2
RoundHalfEven(sum) ==
    IF sum % 2 = 0 \/ (sum \div 2) % 2 = 0 THEN sum \div 2 ELSE (sum \div 2) + 1

InPct(x) == IF x < 0 THEN 0 ELSE IF x > 100 THEN 100 ELSE x

\* C11: a row appended by "+" gets S = V = the average of the last row's S and
\* V rounded to the nearest integer (under either convention for a tie) and
\* clamped to [0,100]; with no rows it gets 70/70.
C11_AddRowDefault ==
    [][op'.name = "add_row" =>
          \E d \in (IF rows = <<>> THEN {70}
                    ELSE {InPct(RoundHalfUp(rows[Len(rows)].s + rows[Len(rows)].v)),
                          InPct(RoundHalfEven(rows[Len(rows)].s + rows[Len(rows)].v))}) :
              rows' = Append(rows, [s |-> d, v |-> d])]_vars

\* the matrix the specification derives from (columns, hue, rows)
ComputeMatrix(c, h, rws) ==
    [r \in 1..(1 + Len(rws)) |->
       [k \in 1..c |->
          hsv_to_hex((h * c + (k - 1) * 360) % (360 * c), c,
                     IF r = 1 THEN 100 ELSE rws[r - 1].s,
                     IF r = 1 THEN 100 ELSE rws[r - 1].v)]]

DocHue(d) == str_to_int(get(d.inputs, <<"h">>)).val
DocRow(d, j) ==
    [s |-> str_to_int(get(d.inputs, <<"row", j + 1, "_s">>)).val,
     v |-> str_to_int(get(d.inputs, <<"row", j + 1, "_v">>)).val]

\* C12: after a successful import the rows are the document's row2.. pairs in
\* order, columns and hue are the document's, and the matrix is the one
\* derived from them, whatever the tokens of the [hex] section are.
C12_ImportTakesInputsNotHex ==
    [][\A d \in ImportDocs :
          (op'.name = "import" /\ Succeeded(op') /\ import_ini(d))
              => /\ cols' = DocCols(d)
                 /\ h_var' = DocHue(d)
                 /\ rows' = [j \in 1..DocRowsCount(d) |-> DocRow(d, j)]
                 /\ cell_hex' = ComputeMatrix(cols', h_var', rows')]_vars

\* C12 witness: the two-row document was imported; its first [hex] token is
\* not in the matrix.
C12_Witness ==
    /\ op = [name |-> "import", arg |-> <<"ok">>]
    /\ cols = 3
    /\ h_var = 200
    /\ rows = <<[s |-> 30, v |-> 60], [s |-> 90, v |-> 10]>>
    /\ cell_hex[1][1] # upper(TokShapeOnly)

UpperHexChars == {"0", "1", "2", "3", "4", "5", "6", "7", "8", "9",
                  "A", "B", "C", "D", "E", "F"}

\* an upper-case #RRGGBB token
IsUpperRRGGBB(tok) ==
    /\ Len(tok) = 7
    /\ tok[1] = "#"
    /\ \A i \in 2..7 : tok[i] \in UpperHexChars

\* C13: in every reachable state the exported document has rows_count =
\* len(rows), keys row{i}_s / row{i}_v for exactly i in 2..rows_count+1 with
\* the rows in their current order, [hex] keys row1..row{rows_count+1} of
\* exactly cols upper-case #RRGGBB tokens each, and the favourites in order,
\* upper-cased, as [palette] colors.
C13_ExportShape ==
    \A doc \in {export_ini} :
        /\ doc.inputs[<<"rows_count">>] = int_to_str(Len(rows))
        /\ doc.inputs[<<"cols">>] = int_to_str(cols)
        /\ doc.inputs[<<"h">>] = int_to_str(h_var)
        /\ DOMAIN doc.inputs =
              {<<"cols">>, <<"h">>, <<"rows_count">>}
              \cup {<<"row", i, "_s">> : i \in 2..(Len(rows) + 1)}
              \cup {<<"row", i, "_v">> : i \in 2..(Len(rows) + 1)}
        /\ \A i \in 2..(Len(rows) + 1) :
              /\ doc.inputs[<<"row", i, "_s">>] = int_to_str(rows[i - 1].s)
              /\ doc.inputs[<<"row", i, "_v">>] = int_to_str(rows[i - 1].v)
        /\ DOMAIN doc.hex = {<<"row", r>> : r \in 1..(Len(rows) + 1)}
        /\ \A r \in 1..(Len(rows) + 1) :
              \A toks \in {split(doc.hex[<<"row", r>>])} :
                  /\ Len(toks) = cols
                  /\ \A k \in 1..Len(toks) : IsUpperRRGGBB(toks[k])
        /\ "palette" \in doc.sections
        /\ split(doc.palette[<<"colors">>]) =
              [i \in 1..Len(palette_hexes) |-> upper(palette_hexes[i])]

\* C13 witness: a state with six rows and a favourite, whose export numbers
\* the last row row7.
C13_Witness ==
    /\ Len(rows) = 6
    /\ palette_hexes # <<>>
    /\ export_ini.inputs[<<"row", 7, "_s">>] = int_to_str(25)

\* typed texts that denote a value above, or below, the field's range
TypedAbovePct == {int_to_str(150), <<"i", "n", "f">>}
TypedBelowPct == {int_to_str(-5)}
TypedAboveHue == {int_to_str(400)}
TypedBelowCols == {int_to_str(1)}

\* the S or V of the row a committed S/V edit was made on
EditedValue == IF op.arg[2] = "s" THEN rows[op.arg[1] + 1].s ELSE rows[op.arg[1] + 1].v

\* C14: committing a typed value in a live-edit field never surfaces a failure
\* and leaves the field at the nearest bound when the value is out of range;
\* columns stay in [2,360], hue in [0,359] and every row's S and V in [0,100].
C14_LiveEditsClamp ==
    /\ cols \in 2..360
    /\ h_var \in 0..359
    /\ \A i \in 1..Len(rows) : rows[i].s \in 0..100 /\ rows[i].v \in 0..100
    /\ op.name \in {"sv_entry", "cols_change", "clamp_h"} => fault = "none"
    /\ (op.name = "sv_entry" /\ op.arg[3] \in TypedAbovePct) => EditedValue = 100
    /\ (op.name = "sv_entry" /\ op.arg[3] \in TypedBelowPct) => EditedValue = 0
    /\ (op.name = "clamp_h" /\ op.arg \in TypedAboveHue) => h_var = 359
    /\ (op.name = "cols_change" /\ op.arg \in TypedBelowCols) => cols = 2

\* exactly six hex digits after an optional single leading "#"
WellFormedHex(x) ==
    LET body == IF x # <<>> /\ x[1] = "#" THEN Tail(x) ELSE x
    IN /\ Len(body) = 6
       /\ \A i \in 1..6 : body[i] \in UpperHexChars \cup {"a", "b", "c", "d", "e", "f"}

\* C15: hexToRgb fails for every text that is not exactly six hex digits
\* after an optional single leading "#", and returns three integers in
\* [0,255] for every well-formed text.
C15_HexToRgbFormat ==
    (call.fn = "hex_to_rgb_tuple" /\ call.done) =>
        IF WellFormedHex(call.arg)
        THEN /\ call.result.ok
             /\ Len(call.result.val) = 3
             /\ \A k \in 1..3 : call.result.val[k] \in 0..255
        ELSE ~call.result.ok

\* C16: the matrix derived from (columns, hue, rows) has 1 + len(rows) rows
\* of columns cells; row 0 is computed at 100/100 whatever the rows are, row
\* r > 0 from rows[r-1], column c at hue (hue + c*360/columns) mod 360; for
\* columns 4, hue 0 and no rows it is one row at hues 0, 90, 180, 270.
C16_MatrixDerivation ==
    (call.fn = "update_grid" /\ call.done) =>
        \A c \in {call.arg[1]}, h \in {call.arg[2]}, rws \in {call.arg[3]} :
            LET m == call.result
                hue(k) == (h * c + (k - 1) * 360) % (360 * c)
            IN /\ Len(m) = 1 + Len(rws)
               /\ \A r \in 1..Len(m) : Len(m[r]) = c
               /\ \A k \in 1..c : m[1][k] = hsv_to_hex(hue(k), c, 100, 100)
               /\ \A r \in 1..Len(rws), k \in 1..c :
                     m[r + 1][k] = hsv_to_hex(hue(k), c, rws[r].s, rws[r].v)
               /\ (c = 4 /\ h = 0 /\ rws = <<>>) =>
                     m = << << <<"#", "f", "f", "0", "0", "0", "0">>,
                               <<"#", "8", "0", "f", "f", "0", "0">>,
                               <<"#", "0", "0", "f", "f", "f", "f">>,
                               <<"#", "8", "0", "0", "0", "f", "f">> >> >>

\* C16 witness: the matrix for 7 columns, hue 25 and rows 50/100, 0/50 has
\* been computed.
C16_Witness ==
    /\ call.fn = "update_grid"
    /\ call.done
    /\ call.arg = <<7, 25, <<[s |-> 50, v |-> 100], [s |-> 0, v |-> 50]>>>>
    /\ Len(call.result) = 3

\* C17: at saturation 0 hsvToHex does not depend on the hue: the colour is
\* the one of hue 0 at the same value, "#ffffff" at value 100 and "#000000"
\* at value 0.
C17_GreyIsHueInvariant ==
    (call.fn = "hsv_to_hex" /\ call.done /\ call.arg[3] = 0) =>
        /\ call.result = hsv_to_hex(0, 1, 0, call.arg[4])
        /\ call.arg[4] = 100 => call.result = <<"#", "f", "f", "f", "f", "f", "f">>
        /\ call.arg[4] = 0 => call.result = <<"#", "0", "0", "0", "0", "0", "0">>

\* C17 witness: hsvToHex(200, 0, 100) has been computed and is white.
C17_Witness ==
    /\ call.fn = "hsv_to_hex"
    /\ call.done
    /\ call.arg = <<200, 1, 0, 100>>
    /\ call.result = <<"#", "f", "f", "f", "f", "f", "f">>

\* colours a removal can be asked for: the favourites and the clicked cells
RemovalTargets ==
    {palette_hexes[i] : i \in 1..Len(palette_hexes)}
    \cup {cell_hex[cell[1] + 1][cell[2] + 1] :
             cell \in {x \in CtxCells : x[1] <= Len(rows) /\ x[2] < cols}}

\* C18: in every reachable state removeByValue(hex) removes the entry equal
\* to the upper-cased hex and keeps the other favourites in their order; when
\* no entry matches, the list is unchanged.
C18_RemoveByValue ==
    \A t \in RemovalTargets :
        \A after \in {palette_remove(palette_hexes, palette_hex_set, t).hexes} :
            IF \E i \in 1..Len(palette_hexes) : palette_hexes[i] = upper(t)
            THEN \E i \in 1..Len(palette_hexes) :
                    /\ palette_hexes[i] = upper(t)
                    /\ after = Without(palette_hexes, i - 1)
            ELSE after = palette_hexes

\* C18 witness: the first of three favourites was removed and the other two
\* are left in their order.
C18_Witness ==
    /\ op.name = "palette_remove"
    /\ Len(op.arg[2]) = 3
    /\ op.arg[1] = op.arg[2][1]
    /\ palette_hexes = <<op.arg[2][2], op.arg[2][3]>>

\* res is items upper-cased, each colour kept once, in first-seen order
IsFirstSeenDedup(res, items) ==
    LET up == [i \in 1..Len(items) |-> upper(items[i])]
        first(x) == CHOOSE i \in 1..Len(up) : up[i] = x /\ \A j \in 1..(i - 1) : up[j] # x
    IN /\ {res[i] : i \in 1..Len(res)} = {up[i] : i \in 1..Len(up)}
       /\ \A i, j \in 1..Len(res) : i < j => (res[i] # res[j] /\ first(res[i]) < first(res[j]))

\* C19: an import that replaces the favourites sets them to the upper-cased
\* colors of the document, each kept once in first-seen order; every import
\* leaves the list either as it was or fully new.
C19_ReplaceAll ==
    [][\A d \in ImportDocs :
          (op'.name = "import" /\ import_ini(d)) =>
              /\ (Succeeded(op') /\ "palette" \in d.sections)
                    => IsFirstSeenDedup(palette_hexes', PaletteTokens(d))
              /\ \/ palette_hexes' = palette_hexes
                 \/ IsFirstSeenDedup(palette_hexes', PaletteTokens(d))]_vars

\* C19 witness: colors "#00ff00 #ff0000 #00FF00" replaced one favourite by
\* #00FF00, #FF0000.
C19_Witness ==
    /\ op = [name |-> "import", arg |-> <<"ok">>]
    /\ palette_hexes = <<upper(TokGreen), TokRedUpper>>
    /\ Cardinality(palette_hex_set) = 1

\* C20: deleting the row at a valid position removes exactly that row: one
\* row fewer, every other row with its S/V in the same relative order, and a
\* matrix of one row fewer; a delete request for a row that is no longer in
\* the sequence changes nothing.
C20_DeleteRow ==
    [][/\ op'.name = "remove_row" =>
            /\ Len(rows') = Len(rows) - 1
            /\ \A k \in 1..Len(rows') :
                  rows'[k] = IF k <= op'.arg[1] THEN rows[k] ELSE rows[k + 1]
            /\ Len(cell_hex') = Len(cell_hex) - 1
       /\ op'.name = "remove_row_gone" =>
            UNCHANGED <<cols, h_var, rows, cell_hex, palette_hexes>>]_vars

\* C20 witness: the second of the five initial rows was deleted.
C20_Witness ==
    /\ op = [name |-> "remove_row", arg |-> <<1>>]
    /\ Len(rows) = 4
    /\ rows[1].s = 85
    /\ rows[2].s = 55
    /\ Len(cell_hex) = 5

\* C21: in every reachable state (so after every add, remove and import of
\* favourites) palette_hex_set is exactly the set of entries of palette_hexes.
C21_SetMatchesList ==
    palette_hex_set = {palette_hexes[i] : i \in 1..Len(palette_hexes)}

\* C22: no execution of _update_grid indexes a cell outside the cell grid it
\* runs against: the columns it loops over are within the width of cell_hex
\* and the rows within its height.  This holds in particular for the
\* recomputation the hue scale fires during a successful import.
C22_UpdateWithinGrid ==
    \A i \in 1..Len(grid_runs) :
        /\ grid_runs[i].cols <= grid_runs[i].width
        /\ grid_runs[i].total <= grid_runs[i].height

\* C23: when a drag ends while the row whose handle was pressed is still in
\* the list, whatever rows were added or deleted since the press, the handler
\* does not fail, and it either leaves the rows as they are or moves that
\* row: the new order is the old one with that row taken out and put back.
C23_DragEndMovesPressedRow ==
    [][(op'.name = "drag_end" /\ drag_row # -1) =>
          /\ fault' = "none"
          /\ \/ rows' = rows
             \/ \E j \in 0..(Len(rows) - 1) :
                   rows' = insert(pop(rows, drag_row), j, rows[drag_row + 1])]_vars

====
